---- MODULE Spec2Model ----
(***************************************************************************)
(* Model of media_duplicate_cleaner: the scan of one directory            *)
(* (process_directory) and the confirmation / deletion phase (main) of    *)
(* the two entry points                                                    *)
(*   "picker"      = media_duplicate_cleaner.py                            *)
(*   "interactive" = media_duplicate_cleaner_interactive.py                *)
(*                                                                         *)
(* A file name is a sequence of one-character strings.  The full-width    *)
(* parentheses U+FF08 and U+FF09 are the characters "FW(" and "FW)".      *)
(* A path is the file name: the model has one directory, so the common    *)
(* os.path.join(directory, ...) prefix is left out.                       *)
(***************************************************************************)
EXTENDS Integers, Sequences, FiniteSets, TLC

VARIABLES
    entry,                  \* which program runs: "picker" or "interactive"
    listing,                \* os.listdir(directory), in listing order: file records
    disk,                   \* names of the files that exist now
    locked,                 \* names whose os.remove raises (permission denied)
    pc,                     \* position of main(): "setup", "scan", "prompt", "report",
                            \* "confirm", "delete", "done", or "exit" (setup failed)
    cat,                    \* picker: the category (1..4) main() is working on
    idx,                    \* index of the next candidate of the running deletion loop
    image_duplicate_groups, \* picker: all_image_duplicate_groups
    image_copies_groups,    \* picker: all_image_copies_groups
    same_name_groups,       \* picker: all_same_name_groups
    video_duplicate_groups, \* picker: all_video_duplicate_groups
    image_groups,           \* interactive: group_info["image_groups"]
    video_groups,           \* interactive: group_info["video_groups"] with the keep/delete of each
    all_files_to_delete,    \* interactive: paths of all_files_to_delete, in order
    resp,                   \* the line typed at the last confirmation prompt, as typed
    asked,                  \* the category the last prompt was about (-1: none yet)
    decision,               \* per category: "unasked", "yes" (deletion confirmed) or "no"
    attempts,               \* removal attempts made so far, in order: the file, the pass,
                            \* the outcome, and the line typed at the prompt before the pass
    vanished,               \* number of files removed from outside so far
    root_directory,         \* what main() got as root: "unset", "none" (nothing chosen),
                            \* "missing" (not a directory) or "dir"
    log_file,               \* the log file: "unset", "created" or "failed" (open raised)
    processed_dirs,         \* processed_dirs: the calls of process_directory so far
    report_file,            \* interactive: "unset", "written" or "none" (report failed)
    log                     \* the entries written to the log file, in order

vars == <<entry, listing, disk, locked, pc, cat, idx,
          image_duplicate_groups, image_copies_groups, same_name_groups,
          video_duplicate_groups, image_groups, video_groups,
          all_files_to_delete, resp, asked, decision, attempts, vanished,
          root_directory, log_file, processed_dirs, report_file, log>>

-----------------------------------------------------------------------------
(* Bounds *)

MaxFiles == 3          \* files in the scanned directory (scan specification)
MaxRunFiles == 3       \* files in the directory of a full run
MaxVanish == 1         \* files removed from outside during a run
MaxLocked == 1         \* files whose removal is denied

-----------------------------------------------------------------------------
(* Generic helpers *)

Range(s) == {s[i] : i \in 1..Len(s)}

Min(S) == CHOOSE m \in S : \A n \in S : m <= n

Max(S) == CHOOSE m \in S : \A n \in S : n <= m

RECURSIVE SortedSeq(_)
\* the elements of a finite set of integers in ascending order
SortedSeq(S) == IF S = {} THEN <<>> ELSE <<Min(S)>> \o SortedSeq(S \ {Min(S)})

\* lexicographic < on equal-length tuples of integers (Python tuple comparison)
LexLess(a, b) ==
    \E i \in 1..Len(a) : a[i] < b[i] /\ \A j \in 1..(i - 1) : a[j] = b[j]

RECURSIVE Flatten(_)
Flatten(ss) == IF ss = <<>> THEN <<>> ELSE Head(ss) \o Flatten(Tail(ss))

\* all orderings of the finite set S, as sequences without repetition
Perms(S) ==
    {s \in [1..Cardinality(S) -> S] : \A i, j \in 1..Cardinality(S) : i # j => s[i] # s[j]}

\* sequences of length 1..n of distinct elements of S
DistinctSeqs(S, n) ==
    UNION {{s \in [1..k -> S] : \A i, j \in 1..k : i # j => s[i] # s[j]} : k \in 1..n}

-----------------------------------------------------------------------------
(* Strings: str.lower, str.strip, os.path.splitext *)

UpperChars == <<"A","B","C","D","E","F","G","H","I","J","K","L","M",
                "N","O","P","Q","R","S","T","U","V","W","X","Y","Z">>
LowerChars == <<"a","b","c","d","e","f","g","h","i","j","k","l","m",
                "n","o","p","q","r","s","t","u","v","w","x","y","z">>

LowerChar(c) ==
    IF \E i \in 1..26 : UpperChars[i] = c
    THEN LowerChars[CHOOSE i \in 1..26 : UpperChars[i] = c]
    ELSE c

\* str.lower()
Lower(s) == [i \in 1..Len(s) |-> LowerChar(s[i])]

Whitespace == {" ", "\t", "\n", "\r"}

\* str.strip(): drop the leading and the trailing whitespace
Strip(s) ==
    LET keep == {i \in 1..Len(s) : s[i] \notin Whitespace}
    IN  IF keep = {} THEN <<>> ELSE SubSeq(s, Min(keep), Max(keep))

\* index of the dot that starts the extension, 0 when there is none:
\* the last dot, provided some character before it is not a dot
ExtDot(name) ==
    LET dots == {i \in 1..Len(name) : name[i] = "."}
    IN  IF dots = {} THEN 0
        ELSE IF \E j \in 1..(Max(dots) - 1) : name[j] # "." THEN Max(dots)
        ELSE 0

\* os.path.splitext(name)[0]
Stem(name) == IF ExtDot(name) = 0 THEN name ELSE SubSeq(name, 1, ExtDot(name) - 1)

\* os.path.splitext(name)[1]
Ext(name) == IF ExtDot(name) = 0 THEN <<>> ELSE SubSeq(name, ExtDot(name), Len(name))

VIDEO_EXTENSIONS ==
    { <<".","m","p","4">>, <<".","m","k","v">>, <<".","a","v","i">>, <<".","m","o","v">>,
      <<".","w","m","v">>, <<".","f","l","v">>, <<".","w","e","b","m">> }

IMAGE_EXTENSIONS ==
    { <<".","j","p","g">>, <<".","j","p","e","g">>, <<".","p","n","g">>, <<".","g","i","f">>,
      <<".","b","m","p">>, <<".","w","e","b","p">> }

IsImageName(name) == Lower(Ext(name)) \in IMAGE_EXTENSIONS

IsVideoName(name) == Lower(Ext(name)) \in VIDEO_EXTENSIONS

-----------------------------------------------------------------------------
(* Copy-suffix patterns *)

Digits == {"0","1","2","3","4","5","6","7","8","9"}
OpenParens == {"(", "FW("}
CloseParens == {")", "FW)"}

\* the pattern  [（(]\d+[）)]  matches s[i..j] exactly
ParenDigits(s, i, j) ==
    /\ j >= i + 2
    /\ s[i] \in OpenParens
    /\ s[j] \in CloseParens
    /\ \A k \in (i + 1)..(j - 1) : s[k] \in Digits

\* lengths of group(1) for which  ^(.*?)[（(](\d+)[）)]$  matches the stem
NumberMatchBases(stem) == {b \in 0..Len(stem) : ParenDigits(stem, b + 1, Len(stem))}

NoMatch == "NoMatch"

\* image_number_pattern.match(name): group(1) of the match (the lazy group
\* takes the shortest base), or NoMatch
image_number_pattern(stem) ==
    IF NumberMatchBases(stem) = {} THEN NoMatch
    ELSE SubSeq(stem, 1, Min(NumberMatchBases(stem)))

\* bool(re.search(r'[（(]\d+[）)]', filename)) of file_priority
has_copy_suffix(filename) ==
    \E i, j \in 1..Len(filename) : ParenDigits(filename, i, j)

-----------------------------------------------------------------------------
(* Numbers: round(x, 2) and the video metadata probe *)

\* num/den rounded to the nearest integer, ties to the even one (Python round)
RoundHalfEven(num, den) ==
    LET q == num \div den
        r == num % den
    IN  IF 2 * r < den THEN q
        ELSE IF 2 * r > den THEN q + 1
        ELSE IF q % 2 = 0 THEN q ELSE q + 1

BytesPerMB == 1048576

\* round(os.path.getsize(file) / (1024 * 1024), 2), in hundredths of a megabyte
size_mb(bytes) == RoundHalfEven(bytes * 100, BytesPerMB)

\* Python None; durations and frame rates are never negative
None == -1

\* A probe outcome is what ffprobe gives for one file:
\*   rc        the return code,
\*   duration  the stream's duration in eighths of a second (exact floats), or None
\*   num, den  the r_frame_rate 'num/den'
\* get_video_info: None, or the pair duration / frame_rate
get_video_info_fails(probe) == probe.rc # 0 \/ probe.duration = None

\* frame_rate = num / denom if denom != 0 else 0, as the fraction <<num, den>>
frame_rate(probe) == IF probe.den # 0 THEN <<probe.num, probe.den>> ELSE <<0, 1>>

\* round(metadata['duration'], 2), in hundredths of a second
RoundDuration(probe) == RoundHalfEven(probe.duration * 100, 8)

\* round(metadata['frame_rate'], 2), in hundredths
RoundFrameRate(probe) == RoundHalfEven(frame_rate(probe)[1] * 100, frame_rate(probe)[2])

-----------------------------------------------------------------------------
(* Keys and grouping *)

\* key = (size, width, height)
ImageKey(f) == <<f.size, f.dims[1], f.dims[2]>>

\* a variant that fills the unknown duration and frame rate with zeros
FallbackKey_Zeros(f) == <<size_mb(f.size), 0, 0>>

\* the key of a video whose probe failed
FallbackKey(f) == <<size_mb(f.size), None, None>>

\* key = (size_mb, round(duration, 2), round(frame_rate, 2)) or (size_mb, None, None)
VideoKey(f) ==
    IF get_video_info_fails(f.probe) THEN FallbackKey(f)
    ELSE <<size_mb(f.size), RoundDuration(f.probe), RoundFrameRate(f.probe)>>

\* the items at the indices I, in order
AtIndices(items, I) == [k \in 1..Cardinality(I) |-> items[SortedSeq(I)[k]]]

\* a dict of lists filled by one pass over items: one entry per distinct key,
\* in order of first insertion, each holding its items in order
GroupBy(items, keys) ==
    LET firsts == SortedSeq({i \in 1..Len(items) : \A j \in 1..(i - 1) : keys[j] # keys[i]})
    IN  [g \in 1..Len(firsts) |->
            [key   |-> keys[firsts[g]],
             files |-> AtIndices(items, {i \in 1..Len(items) : keys[i] = keys[firsts[g]]})]]

Names(files) == [i \in 1..Len(files) |-> files[i].name]

FileOf(files, path) == CHOOSE f \in Range(files) : f.name = path

\* min(files, key=...) on the keys prios: the index of the first item that no
\* other item is strictly below
MinIndex(prios) ==
    Min({i \in 1..Len(prios) : \A j \in 1..Len(prios) : ~ LexLess(prios[j], prios[i])})

BoolInt(b) == IF b THEN 1 ELSE 0

\* a variant that orders images by name length alone
ImagePriority_NoMtime(f) == <<Len(f.name)>>

\* key of the image pass: (len(os.path.basename(x)), os.path.getmtime(x))
ImagePriority(f) == <<Len(f.name), f.mtime>>

\* float('inf'): above every modification time
Inf == 1000000

\* mtime of file_priority: os.path.getmtime(file), float('inf') when it raises
\* (a file whose mtime is None is gone when it is read)
getmtime(f) == IF f.mtime = None THEN Inf ELSE f.mtime

\* file_priority: (has_copy_suffix, len(filename), mtime)
file_priority(f) == <<BoolInt(has_copy_suffix(f.name)), Len(f.name), getmtime(f)>>

\* find_best_file_to_keep(files, video_metadata), files not empty
find_best_file_to_keep(files) ==
    files[MinIndex([i \in 1..Len(files) |-> file_priority(files[i])])]

-----------------------------------------------------------------------------
(* process_directory: classification and the grouping passes *)

\* Image.open(file) raises for an image with these dims
Undecodable == <<>>

\* a file that is not a video has this probe
NoProbe == [rc |-> 1, duration |-> None, num |-> 0, den |-> 1]

image_files(files) == SelectSeq(files, LAMBDA f : IsImageName(f.name))

video_files(files) == SelectSeq(files, LAMBDA f : ~ IsImageName(f.name) /\ IsVideoName(f.name))

\* has_media of main(): some entry has a media extension
has_media(files) == \E f \in Range(files) : IsImageName(f.name) \/ IsVideoName(f.name)

\* file_to_keep of the image pass (picker)
ImageFileToKeep(files) ==
    files[MinIndex([i \in 1..Len(files) |-> ImagePriority(files[i])])]

\* a variant that forgets the filter: the kept file stays in the delete list
FilesToDelete_NoFilter(files, keep) == Names(files)

\* files_to_delete = [f for f in files if f != file_to_keep]
FilesToDelete(files, keep) == SelectSeq(Names(files), LAMBDA n : n # keep.name)

\* the image pass raises: min() reads os.path.getmtime of every file of a group
\* of more than one image, outside any try, and one of them is gone by then
ImagePassRaises(files) ==
    LET opened == SelectSeq(image_files(files),
                            LAMBDA f : f.size # None /\ f.dims # Undecodable)
        groups == GroupBy(opened, [i \in 1..Len(opened) |-> ImageKey(opened[i])])
    IN  \E g \in 1..Len(groups) :
            /\ Len(groups[g].files) > 1
            /\ \E f \in Range(groups[g].files) : f.mtime = None

\* 1. image_duplicate_groups (picker): images whose size was read and that
\* opened, by (size, width, height)
ImageDuplicateGroups(files) ==
    LET opened == SelectSeq(image_files(files),
                            LAMBDA f : f.size # None /\ f.dims # Undecodable)
        groups == GroupBy(opened, [i \in 1..Len(opened) |-> ImageKey(opened[i])])
        dups   == SelectSeq(groups, LAMBDA g : Len(g.files) > 1)
    IN  [g \in 1..Len(dups) |->
            [key     |-> dups[g].key,
             members |-> Names(dups[g].files),
             keep    |-> ImageFileToKeep(dups[g].files).name,
             delete  |-> FilesToDelete(dups[g].files, ImageFileToKeep(dups[g].files))]]

\* an image whose stem matches image_number_pattern
IsNumbered(f) == image_number_pattern(Stem(f.name)) # NoMatch

\* original_file = os.path.join(directory, f"{base_name}{ext}")
original_file(f) == image_number_pattern(Stem(f.name)) \o Ext(f.name)

\* 2. image_copies_groups (picker): numbered images by original_file
ImageCopiesGroups(files) ==
    LET numbered == SelectSeq(image_files(files), IsNumbered)
        groups   == GroupBy(Names(numbered),
                            [i \in 1..Len(numbered) |-> original_file(numbered[i])])
    IN  [g \in 1..Len(groups) |-> [origin |-> groups[g].key, copies |-> groups[g].files]]

\* numbered images whose original_file is in image_files (interactive)
NumberedWithOrigin(files) ==
    SelectSeq(image_files(files),
              LAMBDA f : IsNumbered(f) /\ original_file(f) \in Range(Names(image_files(files))))

\* image_groups (interactive): key (base_name, ext), the origin first, then its copies
InteractiveImageGroups(files) ==
    LET numbered == NumberedWithOrigin(files)
        groups   == GroupBy(Names(numbered),
                            [i \in 1..Len(numbered) |->
                                <<image_number_pattern(Stem(numbered[i].name)), Ext(numbered[i].name)>>])
    IN  [g \in 1..Len(groups) |->
            [key    |-> groups[g].key,
             origin |-> groups[g].key[1] \o groups[g].key[2],
             copies |-> groups[g].files,
             files  |-> <<groups[g].key[1] \o groups[g].key[2]>> \o groups[g].files]]

\* image_numbered_files_to_delete (interactive)
image_numbered_files_to_delete(files) == Names(NumberedWithOrigin(files))

\* a variant whose images list is not filtered by extension
SameNameGroups_Unfiltered(files) ==
    LET all_files == image_files(files) \o video_files(files)
        groups    == GroupBy(Names(all_files),
                             [i \in 1..Len(all_files) |-> Stem(all_files[i].name)])
        mixed     == SelectSeq(groups, LAMBDA g : /\ \E n \in Range(g.files) : IsVideoName(n)
                                                  /\ \E n \in Range(g.files) : IsImageName(n))
    IN  [g \in 1..Len(mixed) |->
            [stem   |-> mixed[g].key,
             videos |-> SelectSeq(mixed[g].files, IsVideoName),
             images |-> mixed[g].files]]

\* 3. same_name_groups (picker): images and videos by stem
SameNameGroups(files) ==
    LET all_files == image_files(files) \o video_files(files)
        groups    == GroupBy(Names(all_files),
                             [i \in 1..Len(all_files) |-> Stem(all_files[i].name)])
        mixed     == SelectSeq(groups, LAMBDA g : /\ \E n \in Range(g.files) : IsVideoName(n)
                                                  /\ \E n \in Range(g.files) : IsImageName(n))
    IN  [g \in 1..Len(mixed) |->
            [stem   |-> mixed[g].key,
             videos |-> SelectSeq(mixed[g].files, IsVideoName),
             images |-> SelectSeq(mixed[g].files, IsImageName)]]

\* 4. video_duplicate_groups: videos whose size was read, by VideoKey, keep by
\* find_best_file_to_keep
VideoDuplicateGroups(files) ==
    LET videos == SelectSeq(video_files(files), LAMBDA f : f.size # None)
        groups == GroupBy(videos, [i \in 1..Len(videos) |-> VideoKey(videos[i])])
        dups   == SelectSeq(groups, LAMBDA g : Len(g.files) > 1)
    IN  [g \in 1..Len(dups) |->
            [key     |-> dups[g].key,
             members |-> Names(dups[g].files),
             keep    |-> find_best_file_to_keep(dups[g].files).name,
             delete  |-> FilesToDelete(dups[g].files, find_best_file_to_keep(dups[g].files))]]

\* video_files_to_delete (interactive): the delete lists of the video groups, in order
video_files_to_delete(files) ==
    Flatten([g \in 1..Len(VideoDuplicateGroups(files)) |-> VideoDuplicateGroups(files)[g].delete])

\* files_to_delete = list(set(image_numbered_files_to_delete + video_files_to_delete)):
\* the orders a set of paths can be listed in
FilesToDeleteOrders(files) ==
    Perms(Range(image_numbered_files_to_delete(files)) \cup Range(video_files_to_delete(files)))

\* files_to_delete_info (interactive): the entries of files_to_delete whose
\* descriptor could be built; an image needs os.path.getsize, a video does not
files_to_delete_info(order, files) ==
    SelectSeq(order, LAMBDA n : \A f \in Range(files) :
                                   (f.name = n /\ IsImageName(n)) => f.mtime # None)

\* a file that vanishes while its directory is scanned: after the listing
\* ("listed"), after os.path.getsize ("sized"), or after its fingerprint was
\* taken and before the keep selection ("fingerprinted")
Stages == {"listed", "sized", "fingerprinted"}

NoRace == [name |-> <<>>, stage |-> "none"]

Races(files) == {[name |-> n, stage |-> st] : n \in Range(Names(files)), st \in Stages}

\* the listed files as process_directory reads them under the race: a size of
\* None is an os.path.getsize that raises, dims Undecodable an Image.open that
\* raises, NoProbe a get_video_info that returns None, an mtime of None an
\* os.path.getmtime that raises
AsSeen(files, race) ==
    [i \in 1..Len(files) |->
        IF files[i].name # race.name \/ race.stage = "none" THEN files[i]
        ELSE IF race.stage = "listed"
        THEN [files[i] EXCEPT !.size = None, !.dims = Undecodable, !.probe = NoProbe,
                              !.mtime = None]
        ELSE IF race.stage = "sized"
        THEN [files[i] EXCEPT !.dims = Undecodable, !.probe = NoProbe, !.mtime = None]
        ELSE [files[i] EXCEPT !.mtime = None]]

-----------------------------------------------------------------------------
(* Directory contents the specifications start from *)

sunset_jpg == <<"s","u","n","s","e","t",".","j","p","g">>   \* 'sunset.jpg'
sunset_sp1_jpg == <<"s","u","n","s","e","t"," ","(","1",")",".","j","p","g">>   \* 'sunset (1).jpg'
sunset_fw2_jpg == <<"s","u","n","s","e","t","FW(","2","FW)",".","j","p","g">>   \* 'sunset（2）.jpg'
sunset_final_jpg == <<"s","u","n","s","e","t","(","f","i","n","a","l",")",".","j","p","g">>   \* 'sunset(final).jpg'
photo_v2_jpg == <<"p","h","o","t","o","(","v","2",")",".","j","p","g">>   \* 'photo(v2).jpg'
photo_1x_jpg == <<"p","h","o","t","o","(","1",")","x",".","j","p","g">>   \* 'photo(1)x.jpg'
img_jpg == <<"i","m","g",".","j","p","g">>   \* 'img.jpg'
img_sp1_jpg == <<"i","m","g"," ","(","1",")",".","j","p","g">>   \* 'img (1).jpg'
a_jpg == <<"a",".","j","p","g">>   \* 'a.jpg'
a_1_jpg == <<"a","(","1",")",".","j","p","g">>   \* 'a(1).jpg'
abcdef_jpg == <<"a","b","c","d","e","f",".","j","p","g">>   \* 'abcdef.jpg'
uvwxyz_jpg == <<"u","v","w","x","y","z",".","j","p","g">>   \* 'uvwxyz.jpg'
b_2_PNG == <<"b","(","2",")",".","P","N","G">>   \* 'b(2).PNG'
clip_mp4 == <<"c","l","i","p",".","m","p","4">>   \* 'clip.mp4'
reel_mp4 == <<"r","e","e","l",".","m","p","4">>   \* 'reel.mp4'
c_1_mp4 == <<"c","(","1",")",".","m","p","4">>   \* 'c(1).mp4'
clip_copy_mp4 == <<"c","l","i","p","_","c","o","p","y",".","m","p","4">>   \* 'clip_copy.mp4'
v1_mp4 == <<"v","1",".","m","p","4">>   \* 'v1.mp4'
v2_MKV == <<"v","2",".","M","K","V">>   \* 'v2.MKV'
v3_mp4 == <<"v","3",".","m","p","4">>   \* 'v3.mp4'
event_jpg == <<"e","v","e","n","t",".","j","p","g">>   \* 'event.jpg'
event_1_jpg == <<"e","v","e","n","t","(","1",")",".","j","p","g">>   \* 'event(1).jpg'
event_2_jpg == <<"e","v","e","n","t","(","2",")",".","j","p","g">>   \* 'event(2).jpg'
event_mp4 == <<"e","v","e","n","t",".","m","p","4">>   \* 'event.mp4'
event_1_mp4 == <<"e","v","e","n","t","(","1",")",".","m","p","4">>   \* 'event(1).mp4'
notes_txt == <<"n","o","t","e","s",".","t","x","t">>   \* 'notes.txt'
a_1_2_jpg == <<"a","(","1",")","(","2",")",".","j","p","g">>   \* 'a(1)(2).jpg'
photo_1x_mp4 == <<"p","h","o","t","o","(","1",")","x",".","m","p","4">>   \* 'photo(1)x.mp4'
trip_2023_final_mp4 == <<"t","r","i","p","(","2","0","2","3",")","_","f","i","n","a","l",".","m","p","4">>   \* 'trip(2023)_final.mp4'
clip_1_mp4 == <<"c","l","i","p","(","1",")",".","m","p","4">>   \* 'clip(1).mp4'

\* probe outcomes: ffprobe exits non-zero; no duration field; 0 s at '0/0';
\* 1.125 s at '30000/1001'
ProbeNonZero == [rc |-> 1, duration |-> None, num |-> 0, den |-> 1]
ProbeNoDuration == [rc |-> 0, duration |-> None, num |-> 30, den |-> 1]
ProbeZero == [rc |-> 0, duration |-> 0, num |-> 0, den |-> 0]
ProbeNtsc == [rc |-> 0, duration |-> 9, num |-> 30000, den |-> 1001]

\* what a scenario fixes for a file besides its name
Attr(size, dims, mtime, probe) ==
    [size |-> size, dims |-> dims, mtime |-> mtime, probe |-> probe]

File(name, attr) ==
    [name |-> name, size |-> attr.size, dims |-> attr.dims, mtime |-> attr.mtime,
     probe |-> attr.probe]

\* copy-name scenario: image names with and without numbered suffixes, one fingerprint
CopyFiles ==
    [names |-> {sunset_jpg, sunset_sp1_jpg, sunset_fw2_jpg, sunset_final_jpg, photo_v2_jpg,
                photo_1x_jpg, img_jpg, img_sp1_jpg, a_jpg, a_1_jpg, notes_txt},
     attrs |-> {Attr(100000, <<800, 600>>, 1, NoProbe)}]

\* keep-selection scenario, images: names of two lengths, with and without suffix
KeepImageFiles ==
    [names |-> {abcdef_jpg, uvwxyz_jpg, a_1_jpg, b_2_PNG},
     attrs |-> {Attr(100000, d, m, NoProbe) : d \in {<<800, 600>>, <<640, 480>>}, m \in 1..2}]

\* keep-selection scenario, videos
KeepVideoFiles ==
    [names |-> {clip_mp4, reel_mp4, c_1_mp4, clip_copy_mp4},
     attrs |-> {Attr(5243, <<>>, m, p) : m \in 1..2, p \in {ProbeNtsc, ProbeNonZero}}]

\* video-key scenario: sizes around a rounding boundary, every probe outcome
VideoFiles ==
    [names |-> {v1_mp4, v2_MKV, v3_mp4},
     attrs |-> {Attr(s, <<>>, 1, p) :
                  s \in {5242, 5243, 10000},
                  p \in {ProbeNonZero, ProbeNoDuration, ProbeZero, ProbeNtsc}}]

\* chained-copy scenario: a name, its copy, and the copy of that copy
ChainFiles ==
    [names |-> {a_jpg, a_1_jpg, a_1_2_jpg},
     attrs |-> {Attr(100000, <<800, 600>>, 1, NoProbe)}]

\* suffix-flag scenario: videos of one fingerprint whose names hold a
\* parenthesized number at the end of the stem or inside it
SuffixVideoFiles ==
    [names |-> {photo_1x_mp4, trip_2023_final_mp4, clip_1_mp4},
     attrs |-> {Attr(5243, <<>>, 1, ProbeNtsc)}]

\* full-run scenario: an image, its numbered copies, and the videos of the
\* same stems, listed in this order
RunNames == <<event_jpg, event_1_jpg, event_2_jpg, event_mp4, event_1_mp4>>

RunAttr == Attr(5243, <<800, 600>>, 1, ProbeNtsc)

\* listings of at most n files with distinct names of the scenario
Listings(pool, n) ==
    UNION { { [i \in 1..Len(ns) |-> File(ns[i], a[i])] : a \in [1..Len(ns) -> pool.attrs] } :
            ns \in DistinctSeqs(pool.names, n) }

ScanListings ==
    Listings(CopyFiles, MaxFiles) \cup Listings(KeepImageFiles, MaxFiles)
        \cup Listings(KeepVideoFiles, MaxFiles) \cup Listings(VideoFiles, MaxFiles)
        \cup Listings(ChainFiles, MaxFiles) \cup Listings(SuffixVideoFiles, MaxFiles)

\* the listings of at most MaxRunFiles of the RunNames, order kept
RunListings ==
    { [k \in 1..Cardinality(I) |-> File(RunNames[SortedSeq(I)[k]], RunAttr)] :
        I \in {J \in SUBSET (1..Len(RunNames)) : J # {} /\ Cardinality(J) <= MaxRunFiles} }

\* lines typed at a prompt: 'y', ' Y ', '', 'n', 'yes'
Answers == { <<"y">>, <<" ", "Y", " ">>, <<>>, <<"n">>, <<"y", "e", "s">> }

Categories == 0..4   \* 0: the single prompt of interactive; 1..4: the passes of picker

InitWith(listings, maxLocked) ==
    /\ entry \in {"picker", "interactive"}
    /\ listing \in listings
    /\ disk = Range(Names(listing))
    /\ locked \in {L \in SUBSET Range(Names(listing)) : Cardinality(L) <= maxLocked}
    /\ pc = "setup"
    /\ cat = 0
    /\ idx = 0
    /\ image_duplicate_groups = <<>>
    /\ image_copies_groups = <<>>
    /\ same_name_groups = <<>>
    /\ video_duplicate_groups = <<>>
    /\ image_groups = <<>>
    /\ video_groups = <<>>
    /\ all_files_to_delete = <<>>
    /\ resp = <<>>
    /\ asked = -1
    /\ decision = [c \in Categories |-> "unasked"]
    /\ attempts = <<>>
    /\ vanished = 0
    /\ root_directory = "unset"
    /\ log_file = "unset"
    /\ processed_dirs = 0
    /\ report_file = "unset"
    /\ log = <<>>

Init == InitWith(RunListings, MaxLocked)

InitScan == InitWith(ScanListings, 0)

-----------------------------------------------------------------------------
(* main(): setup and scan *)

\* an entry of the log file: its kind ("header", "directory", "none_found",
\* "cancelled", "deleted", "failed", "summary"), the file it names, the reason
LogEntry(kind, file, reason) == [kind |-> kind, file |-> file, reason |-> reason]

\* a variant that goes on to the walk although the log file cannot be created
Setup_IgnoreLog ==
    /\ pc = "setup"
    /\ \E root \in {"none", "missing", "dir"}, log_ok \in BOOLEAN :
          /\ root_directory' = root
          /\ log_file' = IF root # "dir" THEN "unset" ELSE IF log_ok THEN "created" ELSE "failed"
          /\ log' = IF root = "dir" /\ log_ok THEN <<LogEntry("header", <<>>, "")>> ELSE log
          /\ pc' = IF root = "dir" THEN "scan" ELSE "exit"
    /\ UNCHANGED <<entry, listing, disk, locked, cat, idx, image_duplicate_groups,
                   image_copies_groups, same_name_groups, video_duplicate_groups,
                   image_groups, video_groups, all_files_to_delete, resp, asked,
                   decision, attempts, vanished, processed_dirs, report_file>>

\* main() up to the walk: the root must be a directory and the log file must be
\* created (its header written), else main() returns or exits
Setup ==
    /\ pc = "setup"
    /\ \E root \in {"none", "missing", "dir"}, log_ok \in BOOLEAN :
          /\ root_directory' = root
          /\ log_file' = IF root # "dir" THEN "unset" ELSE IF log_ok THEN "created" ELSE "failed"
          /\ log' = IF root = "dir" /\ log_ok THEN <<LogEntry("header", <<>>, "")>> ELSE log
          /\ pc' = IF root = "dir" /\ log_ok THEN "scan" ELSE "exit"
    /\ UNCHANGED <<entry, listing, disk, locked, cat, idx, image_duplicate_groups,
                   image_copies_groups, same_name_groups, video_duplicate_groups,
                   image_groups, video_groups, all_files_to_delete, resp, asked,
                   decision, attempts, vanished, processed_dirs, report_file>>

\* picker: the walk calls process_directory and extends the four global lists;
\* an exception out of process_directory ends the run with a traceback
ScanPickerWith(race) ==
    /\ pc = "scan"
    /\ entry = "picker"
    /\ LET files == AsSeen(listing, race)
           raises == has_media(listing) /\ ImagePassRaises(files)
           found == has_media(listing) /\ ~ raises
       IN  /\ image_duplicate_groups' = IF found THEN ImageDuplicateGroups(files) ELSE <<>>
           /\ image_copies_groups' = IF found THEN ImageCopiesGroups(files) ELSE <<>>
           /\ same_name_groups' = IF found THEN SameNameGroups(files) ELSE <<>>
           /\ video_duplicate_groups' = IF found THEN VideoDuplicateGroups(files) ELSE <<>>
           /\ pc' = IF raises THEN "crashed" ELSE "prompt"
           /\ cat' = IF raises THEN cat ELSE 1
    /\ processed_dirs' = IF has_media(listing) THEN processed_dirs + 1 ELSE processed_dirs
    /\ disk' = disk \ {race.name}
    /\ vanished' = IF race = NoRace THEN vanished ELSE vanished + 1
    /\ UNCHANGED <<entry, listing, locked, idx, image_groups, video_groups,
                   all_files_to_delete, resp, asked, decision, attempts,
                   root_directory, log_file, report_file, log>>

\* picker: the scan of a directory that stays as it was listed
ScanPicker == ScanPickerWith(NoRace)

\* picker: the scan of a directory one file of which vanishes meanwhile
ScanPickerRace == \E race \in Races(listing) : ScanPickerWith(race)

\* interactive: the walk calls process_directory and collects files_to_delete;
\* with nothing to delete main() returns
ScanInteractiveWith(race) ==
    /\ pc = "scan"
    /\ entry = "interactive"
    /\ LET files == AsSeen(listing, race)
       IN  \E order \in (IF has_media(listing) THEN FilesToDeleteOrders(files) ELSE {<<>>}) :
             LET info == files_to_delete_info(order, files)
             IN  /\ all_files_to_delete' = info
                 /\ image_groups' = IF info # <<>> THEN InteractiveImageGroups(files) ELSE <<>>
                 /\ video_groups' = IF info # <<>> THEN VideoDuplicateGroups(files) ELSE <<>>
                 /\ pc' = IF info = <<>> THEN "done" ELSE "report"
                 /\ log' = log \o (IF has_media(listing)
                                   THEN <<LogEntry("directory", <<>>, "")>> ELSE <<>>)
                               \o (IF info = <<>>
                                   THEN <<LogEntry("none_found", <<>>, "")>> ELSE <<>>)
    /\ processed_dirs' = IF has_media(listing) THEN processed_dirs + 1 ELSE processed_dirs
    /\ disk' = disk \ {race.name}
    /\ vanished' = IF race = NoRace THEN vanished ELSE vanished + 1
    /\ UNCHANGED <<entry, listing, locked, cat, idx, image_duplicate_groups,
                   image_copies_groups, same_name_groups, video_duplicate_groups,
                   resp, asked, decision, attempts,
                   root_directory, log_file, report_file>>

\* interactive: the scan of a directory that stays as it was listed
ScanInteractive == ScanInteractiveWith(NoRace)

\* interactive: the scan of a directory one file of which vanishes meanwhile
ScanInteractiveRace == \E race \in Races(listing) : ScanInteractiveWith(race)

-----------------------------------------------------------------------------
(* main(): confirmation and deletion *)

\* a variant that takes everything but 'n' for consent
Affirmative_NotNo(line) == Lower(Strip(line)) # <<"n">>

\* input(...).strip().lower() == 'y'
Affirmative(line) == Lower(Strip(line)) = <<"y">>

\* the groups of a category of picker
GroupsOf(c) ==
    CASE c = 1 -> image_duplicate_groups
      [] c = 2 -> image_copies_groups
      [] c = 3 -> same_name_groups
      [] c = 4 -> video_duplicate_groups

\* the files the deletion loop of a category of picker goes through, in order
Candidates(c) ==
    CASE c = 1 -> Flatten([g \in 1..Len(image_duplicate_groups) |-> image_duplicate_groups[g].delete])
      [] c = 2 -> Flatten([g \in 1..Len(image_copies_groups) |-> image_copies_groups[g].copies])
      [] c = 3 -> Flatten([g \in 1..Len(same_name_groups) |-> same_name_groups[g].images])
      [] c = 4 -> Flatten([g \in 1..Len(video_duplicate_groups) |-> video_duplicate_groups[g].delete])

\* picker goes on to the next category, or ends after the fourth
Advance ==
    /\ pc' = IF cat = 4 THEN "done" ELSE "prompt"
    /\ cat' = IF cat = 4 THEN cat ELSE cat + 1
    /\ idx' = 0

\* picker: a category without groups is skipped without a prompt
NoData ==
    /\ pc = "prompt"
    /\ entry = "picker"
    /\ GroupsOf(cat) = <<>>
    /\ Advance
    /\ UNCHANGED <<entry, listing, disk, locked, image_duplicate_groups,
                   image_copies_groups, same_name_groups, video_duplicate_groups,
                   image_groups, video_groups, all_files_to_delete, resp, asked,
                   decision, attempts, vanished,
                   root_directory, log_file, processed_dirs, report_file, log>>

\* picker: the prompt of a category; 'y' starts its deletion loop
Prompt ==
    /\ pc = "prompt"
    /\ entry = "picker"
    /\ GroupsOf(cat) # <<>>
    /\ \E line \in Answers :
          /\ resp' = line
          /\ asked' = cat
          /\ decision' = [decision EXCEPT ![cat] = IF Affirmative(line) THEN "yes" ELSE "no"]
          /\ IF Affirmative(line) /\ Candidates(cat) # <<>>
             THEN pc' = "delete" /\ idx' = 1 /\ cat' = cat
             ELSE Advance
    /\ UNCHANGED <<entry, listing, disk, locked, image_duplicate_groups,
                   image_copies_groups, same_name_groups, video_duplicate_groups,
                   image_groups, video_groups, all_files_to_delete, attempts, vanished,
                   root_directory, log_file, processed_dirs, report_file, log>>

\* os.remove(file): succeeds on an existing file that is not locked, else raises
CanRemove(file) == file \in disk /\ file \notin locked

\* a variant whose loop ends at the first removal that raises
RemovePicker_StopOnFailure ==
    /\ pc = "delete"
    /\ entry = "picker"
    /\ LET file == Candidates(cat)[idx]
       IN  /\ disk' = IF CanRemove(file) THEN disk \ {file} ELSE disk
           /\ attempts' = Append(attempts,
                                 [file |-> file, cat |-> cat, gate |-> resp,
                                  outcome |-> IF CanRemove(file) THEN "deleted" ELSE "failed"])
           /\ log' = Append(log, IF CanRemove(file) THEN LogEntry("deleted", file, "")
                                  ELSE LogEntry("failed", file, "error"))
           /\ IF idx = Len(Candidates(cat)) \/ ~ CanRemove(file)
              THEN Advance
              ELSE pc' = pc /\ cat' = cat /\ idx' = idx + 1
    /\ UNCHANGED <<entry, listing, locked, image_duplicate_groups,
                   image_copies_groups, same_name_groups, video_duplicate_groups,
                   image_groups, video_groups, all_files_to_delete, resp, asked,
                   decision, vanished,
                   root_directory, log_file, processed_dirs, report_file>>

\* picker: one iteration of the deletion loop of the category
RemovePicker ==
    /\ pc = "delete"
    /\ entry = "picker"
    /\ LET file == Candidates(cat)[idx]
       IN  /\ disk' = IF CanRemove(file) THEN disk \ {file} ELSE disk
           /\ attempts' = Append(attempts,
                                 [file |-> file, cat |-> cat, gate |-> resp,
                                  outcome |-> IF CanRemove(file) THEN "deleted" ELSE "failed"])
           /\ log' = Append(log, IF CanRemove(file) THEN LogEntry("deleted", file, "")
                                  ELSE LogEntry("failed", file, "error"))
    /\ IF idx = Len(Candidates(cat))
       THEN Advance
       ELSE pc' = pc /\ cat' = cat /\ idx' = idx + 1
    /\ UNCHANGED <<entry, listing, locked, image_duplicate_groups,
                   image_copies_groups, same_name_groups, video_duplicate_groups,
                   image_groups, video_groups, all_files_to_delete, resp, asked,
                   decision, vanished,
                   root_directory, log_file, processed_dirs, report_file>>

\* a variant in which main() goes on to the prompt without a report file
GenerateReport_Proceed ==
    /\ pc = "report"
    /\ entry = "interactive"
    /\ \E written \in BOOLEAN :
          /\ report_file' = IF written THEN "written" ELSE "none"
          /\ pc' = "confirm"
    /\ UNCHANGED <<entry, listing, disk, locked, cat, idx, image_duplicate_groups,
                   image_copies_groups, same_name_groups, video_duplicate_groups,
                   image_groups, video_groups, all_files_to_delete, resp, asked,
                   decision, attempts, vanished,
                   root_directory, log_file, processed_dirs, log>>

\* interactive: generate_detailed_report returns the report file or None
GenerateReport ==
    /\ pc = "report"
    /\ entry = "interactive"
    /\ \E written \in BOOLEAN :
          /\ report_file' = IF written THEN "written" ELSE "none"
          /\ pc' = IF written THEN "confirm" ELSE "done"
    /\ UNCHANGED <<entry, listing, disk, locked, cat, idx, image_duplicate_groups,
                   image_copies_groups, same_name_groups, video_duplicate_groups,
                   image_groups, video_groups, all_files_to_delete, resp, asked,
                   decision, attempts, vanished,
                   root_directory, log_file, processed_dirs, log>>

\* interactive: the single confirmation prompt
Confirm ==
    /\ pc = "confirm"
    /\ entry = "interactive"
    /\ \E line \in Answers :
          /\ resp' = line
          /\ asked' = 0
          /\ decision' = [decision EXCEPT ![0] = IF Affirmative(line) THEN "yes" ELSE "no"]
          /\ pc' = IF Affirmative(line) THEN "delete" ELSE "done"
          /\ idx' = IF Affirmative(line) THEN 1 ELSE 0
          /\ log' = IF Affirmative(line) THEN log ELSE Append(log, LogEntry("cancelled", <<>>, ""))
    /\ UNCHANGED <<entry, listing, disk, locked, cat, image_duplicate_groups,
                   image_copies_groups, same_name_groups, video_duplicate_groups,
                   image_groups, video_groups, all_files_to_delete, attempts, vanished,
                   root_directory, log_file, processed_dirs, report_file>>

\* interactive: one iteration of the deletion loop
RemoveInteractive ==
    /\ pc = "delete"
    /\ entry = "interactive"
    /\ LET file == all_files_to_delete[idx]
       IN  /\ disk' = IF CanRemove(file) THEN disk \ {file} ELSE disk
           /\ attempts' = Append(attempts,
                                 [file |-> file, cat |-> 0, gate |-> resp,
                                  outcome |-> IF file \notin disk THEN "missing"
                                              ELSE IF CanRemove(file) THEN "deleted"
                                              ELSE "failed"])
           /\ log' = log \o (IF file \notin disk THEN <<LogEntry("failed", file, "missing")>>
                             ELSE IF CanRemove(file) THEN <<>>
                             ELSE <<LogEntry("failed", file, "error")>>)
                          \o (IF idx = Len(all_files_to_delete)
                              THEN <<LogEntry("summary", <<>>, "")>> ELSE <<>>)
    /\ IF idx = Len(all_files_to_delete)
       THEN pc' = "done" /\ idx' = 0
       ELSE pc' = pc /\ idx' = idx + 1
    /\ UNCHANGED <<entry, listing, locked, cat, image_duplicate_groups,
                   image_copies_groups, same_name_groups, video_duplicate_groups,
                   image_groups, video_groups, all_files_to_delete, resp, asked,
                   decision, vanished,
                   root_directory, log_file, processed_dirs, report_file>>

\* the environment: a file disappears while a deletion loop runs
Vanish ==
    /\ pc = "delete"
    /\ vanished < MaxVanish
    /\ \E f \in disk : disk' = disk \ {f}
    /\ vanished' = vanished + 1
    /\ UNCHANGED <<entry, listing, locked, pc, cat, idx, image_duplicate_groups,
                   image_copies_groups, same_name_groups, video_duplicate_groups,
                   image_groups, video_groups, all_files_to_delete, resp, asked,
                   decision, attempts,
                   root_directory, log_file, processed_dirs, report_file, log>>

Next ==
    \/ Setup
    \/ ScanPicker
    \/ ScanInteractive
    \/ NoData
    \/ Prompt
    \/ RemovePicker
    \/ GenerateReport
    \/ Confirm
    \/ RemoveInteractive
    \/ Vanish

Spec == Init /\ [][Next]_vars

\* the scan alone, over the larger set of directories
NextScan ==
    \/ Setup
    \/ ScanPicker
    \/ ScanInteractive

SpecScan == InitScan /\ [][NextScan]_vars

\* the scan of a directory that loses one file while it is scanned, up to the
\* report
InitRace == InitWith(RunListings, 0)

NextRace ==
    \/ Setup
    \/ ScanPickerRace
    \/ ScanInteractiveRace
    \/ GenerateReport

SpecRace == InitRace /\ [][NextRace]_vars

\* the deletion loops are straight-line code: once entered they keep running
FairSpec == Spec /\ WF_vars(RemovePicker) /\ WF_vars(RemoveInteractive)

-----------------------------------------------------------------------------
(* Claims *)

\* the fingerprint-based duplicate groups emitted by the scan, of both entry points
FingerprintGroups ==
    Range(image_duplicate_groups) \cup Range(video_duplicate_groups) \cup Range(video_groups)

\* C1: in every image-fingerprint and video-fingerprint duplicate group that
\* process_directory emits, keep is one of the members, delete is exactly the
\* members other than keep, and delete holds at least one file.
C1_GroupShape ==
    \A g \in FingerprintGroups :
        /\ g.keep \in Range(g.members)
        /\ Range(g.delete) = Range(g.members) \ {g.keep}
        /\ Len(g.delete) = Len(g.members) - 1
        /\ Len(g.delete) >= 1

\* a scan has emitted a group of three members, two of them to delete
C1_Witness ==
    \E g \in FingerprintGroups : Len(g.members) = 3 /\ Len(g.delete) = 2

\* process_directory has run
Scanned == pc \notin {"setup", "scan", "exit"}

\* the copy groups emitted by the scan, of both entry points
CopyGroups == Range(image_copies_groups) \cup Range(image_groups)

ImageNames == Range(Names(image_files(listing)))

VideoNames == Range(Names(video_files(listing)))

\* C2: the origin of every emitted copy group is one of the classified image
\* files of the directory; a numbered copy without its origin is in no copy
\* group.  (Stated as claimed; the picker emits groups with absent origins.)
C2_OriginExists ==
    \A g \in CopyGroups : g.origin \in ImageNames

\* C3: 'sunset (1).jpg' and 'sunset（2）.jpg' are attached to the copy group of
\* origin 'sunset.jpg', 'img (1).jpg' to the one of origin 'img.jpg', and
\* 'sunset(final).jpg', 'photo(v2).jpg', 'photo(1)x.jpg' to no copy group.
\* (Stated as claimed; the group(1) of 'sunset (1)' keeps the blank.)
C3_Attached(copy, origin) ==
    (Scanned /\ copy \in ImageNames /\ origin \in ImageNames)
        => \E g \in CopyGroups : g.origin = origin /\ copy \in Range(g.copies)

C3_CopySuffixExamples ==
    /\ C3_Attached(sunset_sp1_jpg, sunset_jpg)
    /\ C3_Attached(sunset_fw2_jpg, sunset_jpg)
    /\ C3_Attached(img_sp1_jpg, img_jpg)
    /\ \A g \in CopyGroups :
          Range(g.copies) \cap {sunset_final_jpg, photo_v2_jpg, photo_1x_jpg} = {}

\* the copy-suffix rule of the detector, on a file name: the stem ends in a
\* parenthesized run of digits
CopySuffixed(name) == image_number_pattern(Stem(name)) # NoMatch

\* the priority of the keep selector as specified
SpecPriority(name) ==
    <<BoolInt(CopySuffixed(name)), Len(name), FileOf(listing, name).mtime>>

\* C4: in every fingerprint-based duplicate group the keep is a minimum of the
\* members under (has_copy_suffix, filename length, mtime).  (Stated as
\* claimed; the image pass of the picker orders by length and mtime only.)
C4_KeepIsMinimum ==
    \A g \in FingerprintGroups :
        \A m \in Range(g.members) : ~ LexLess(SpecPriority(m), SpecPriority(g.keep))

\* has_copy_suffix and filename length as the selector computes them
SameFlagAndLength(m, n) ==
    /\ has_copy_suffix(m) = has_copy_suffix(n)
    /\ Len(m) = Len(n)

MtimeOf(name) == FileOf(listing, name).mtime

IndexOf(name) == CHOOSE i \in 1..Len(listing) : listing[i].name = name

\* C5: of two members of a fingerprint-based group with the same
\* has_copy_suffix and filename length, the later-modified one is never kept
\* and in a group of these two the earlier one is kept; among members that
\* tie with the keep on all three keys the keep is the first of the listing.
C5_MtimeThenOrder ==
    \A g \in FingerprintGroups :
        \A m, n \in Range(g.members) :
            /\ (SameFlagAndLength(m, n) /\ MtimeOf(m) < MtimeOf(n))
                  => /\ g.keep # n
                     /\ (Range(g.members) = {m, n} => g.keep = m)
            /\ (SameFlagAndLength(m, g.keep) /\ MtimeOf(m) = MtimeOf(g.keep))
                  => IndexOf(g.keep) <= IndexOf(m)

\* a group of two members equal in flag and length: the kept one is older and
\* comes second in the listing
C5_Witness ==
    \E g \in FingerprintGroups :
        \E n \in Range(g.members) :
            /\ Range(g.members) = {g.keep, n}
            /\ SameFlagAndLength(g.keep, n)
            /\ MtimeOf(g.keep) < MtimeOf(n)
            /\ IndexOf(n) < IndexOf(g.keep)

VideoGroups == Range(video_duplicate_groups) \cup Range(video_groups)

ProbeFailed(name) == get_video_info_fails(FileOf(listing, name).probe)

SizeMbOf(name) == size_mb(FileOf(listing, name).size)

\* C6: a video whose probe failed is grouped under (size_mb, None, None): every
\* other member of its group is a probe-failed video of the same size_mb, never
\* a video whose probe succeeded; and two probe-failed videos of the same
\* size_mb are in one group.
C6_ProbeFailedApart ==
    /\ \A g \in VideoGroups :
          \A m \in Range(g.members) :
              ProbeFailed(m) =>
                  /\ g.key = <<SizeMbOf(m), None, None>>
                  /\ \A n \in Range(g.members) : ProbeFailed(n) /\ SizeMbOf(n) = SizeMbOf(m)
    /\ Scanned =>
          \A m, n \in VideoNames :
              (m # n /\ ProbeFailed(m) /\ ProbeFailed(n) /\ SizeMbOf(m) = SizeMbOf(n))
                  => \E g \in VideoGroups : {m, n} \subseteq Range(g.members)

\* two probe-failed videos of different byte sizes and equal size_mb are
\* grouped, next to a probed video of that size_mb with 0 s and 0 fps
C6_Witness ==
    \E g \in VideoGroups :
        \E m, n \in Range(g.members) :
            /\ ProbeFailed(m) /\ ProbeFailed(n)
            /\ FileOf(listing, m).size # FileOf(listing, n).size
            /\ \E v \in VideoNames :
                  /\ ~ ProbeFailed(v)
                  /\ SizeMbOf(v) = SizeMbOf(m)
                  /\ FileOf(listing, v).probe.duration = 0
                  /\ v \notin Range(g.members)

\* C7: picker emits a cross-type group for a stem exactly when the directory
\* holds a video and an image of that stem, the group's lists hold exactly
\* those files, and the cross-type pass attempts only files of an images list,
\* never a video.
VideosOfStem(st) == {v \in VideoNames : Stem(v) = st}

ImagesOfStem(st) == {i \in ImageNames : Stem(i) = st}

C7_CrossType ==
    /\ (Scanned /\ entry = "picker") =>
          /\ \A n \in ImageNames \cup VideoNames :
                (VideosOfStem(Stem(n)) # {} /\ ImagesOfStem(Stem(n)) # {})
                    <=> \E g \in Range(same_name_groups) :
                            /\ Range(g.videos) = VideosOfStem(Stem(n))
                            /\ Range(g.images) = ImagesOfStem(Stem(n))
          /\ \A g \in Range(same_name_groups) :
                /\ g.videos # <<>> /\ g.images # <<>>
                /\ Range(g.videos) = VideosOfStem(Stem(g.videos[1]))
                /\ Range(g.images) = ImagesOfStem(Stem(g.videos[1]))
                /\ Len(g.videos) = Cardinality(Range(g.videos))
                /\ Len(g.images) = Cardinality(Range(g.images))
          /\ \A i, j \in 1..Len(same_name_groups) :
                i # j => Stem(same_name_groups[i].videos[1]) # Stem(same_name_groups[j].videos[1])
    /\ \A k \in 1..Len(attempts) :
          attempts[k].cat = 3 =>
              /\ attempts[k].file \in ImageNames
              /\ attempts[k].file \notin VideoNames
              /\ \E g \in Range(same_name_groups) : attempts[k].file \in Range(g.images)

\* 'event.mp4' and 'event.jpg': the cross-type pass has run, it removed
\* 'event.jpg' and nothing else, and 'event.mp4' is still there
C7_Witness ==
    /\ entry = "picker"
    /\ pc = "done"
    /\ \E g \in Range(same_name_groups) : g.videos = <<event_mp4>> /\ g.images = <<event_jpg>>
    /\ {attempts[k].file : k \in {i \in 1..Len(attempts) : attempts[i].cat = 3}} = {event_jpg}
    /\ event_jpg \notin disk
    /\ event_mp4 \in disk

\* C8: over one run every file path is subject to at most one removal attempt.
\* (Stated as claimed; the passes of picker each attempt their own list.)
C8_SingleAttempt ==
    \A i, j \in 1..Len(attempts) : i # j => attempts[i].file # attempts[j].file

\* the category whose deletion loop runs
CurrentCat == IF entry = "interactive" THEN 0 ELSE cat

\* the list a confirmed deletion loop goes through
BatchList(c) == IF c = 0 THEN all_files_to_delete ELSE Candidates(c)

\* how many candidates of the category have had their iteration
BatchProgress(c) ==
    IF pc = "delete" /\ CurrentCat = c THEN idx - 1
    ELSE IF decision[c] = "yes" THEN Len(BatchList(c))
    ELSE 0

AttemptedFiles(c) ==
    LET of_c == SelectSeq(attempts, LAMBDA a : a.cat = c)
    IN  [k \in 1..Len(of_c) |-> of_c[k].file]

BatchEnded(c) == decision[c] = "yes" /\ ~ (pc = "delete" /\ CurrentCat = c)

\* C9: in a confirmed batch the attempts made are the candidates in order, one
\* each, whatever the earlier outcomes; an attempt on a vanished or locked file
\* is recorded as not deleted and the loop goes on; a started batch ends, and
\* at its end no candidate that exists and can be removed is left.
C9_BatchRunsThrough ==
    /\ [](\A c \in Categories : AttemptedFiles(c) = SubSeq(BatchList(c), 1, BatchProgress(c)))
    /\ [][attempts' # attempts =>
            /\ Len(attempts') = Len(attempts) + 1
            /\ LET a == attempts'[Len(attempts')]
               IN  /\ a.outcome = "deleted" <=> (a.file \in disk /\ a.file \notin locked)
                   /\ a.file \notin disk \ locked => a.outcome \in {"failed", "missing"}]_vars
    /\ [](\A c \in Categories :
             BatchEnded(c) => \A f \in Range(BatchList(c)) : f \notin disk \/ f \in locked)
    /\ (pc = "delete") ~> (pc # "delete")

\* a batch has ended in which the first attempt failed or found the file gone
\* and a later attempt deleted its file
C9_Witness ==
    \E c \in Categories :
        /\ BatchEnded(c)
        /\ \E i, j \in 1..Len(attempts) :
              /\ i < j
              /\ attempts[i].cat = c /\ attempts[j].cat = c
              /\ attempts[i].outcome \in {"failed", "missing"}
              /\ attempts[j].outcome = "deleted"

\* the line after trimming and lower-casing
TrimLower(line) == Strip(Lower(line))

SetupFailed == root_directory \in {"none", "missing"} \/ log_file = "failed"

\* no group of any kind has been produced
NoGroups ==
    /\ image_duplicate_groups = <<>> /\ image_copies_groups = <<>>
    /\ same_name_groups = <<>> /\ video_duplicate_groups = <<>>
    /\ image_groups = <<>> /\ video_groups = <<>> /\ all_files_to_delete = <<>>

\* C11: when the root directory does not exist or the log file cannot be
\* created, the run has ended with no process_directory call made, no group
\* produced, no removal attempted and every listed file still on the disk.
C11_SetupFailureStops ==
    SetupFailed =>
        /\ pc = "exit"
        /\ processed_dirs = 0
        /\ NoGroups
        /\ attempts = <<>>
        /\ disk = Range(Names(listing))

\* a run over a directory with media in it ended because the log file could
\* not be created
C11_Witness ==
    /\ pc = "exit" /\ root_directory = "dir" /\ log_file = "failed"
    /\ has_media(listing) /\ processed_dirs = 0

\* the log entries that name a file: one removal and its outcome
IsFileEntry(e) == e.kind \in {"deleted", "failed"}
FileEntries == SelectSeq(log, IsFileEntry)

\* C13: in both entry points the log holds exactly one entry per removal
\* attempt, in order, naming the attempted file and its outcome: deleted, or
\* failed with the reason.
C13_EntryPerAttempt ==
    /\ Len(FileEntries) = Len(attempts)
    /\ \A k \in 1..Len(attempts) :
          /\ FileEntries[k].file = attempts[k].file
          /\ attempts[k].outcome = "deleted" => FileEntries[k].kind = "deleted"
          /\ attempts[k].outcome = "failed" =>
                FileEntries[k].kind = "failed" /\ FileEntries[k].reason = "error"
          /\ attempts[k].outcome = "missing" =>
                FileEntries[k].kind = "failed" /\ FileEntries[k].reason \in {"missing", "error"}

\* C16: interactive entry point: a removal is attempted only after
\* generate_detailed_report returned a report file and the user was then
\* prompted; when the report fails the run is over with nothing removed.
C16_ReportBeforeRemoval ==
    entry = "interactive" =>
        /\ pc \in {"confirm", "delete"} => report_file = "written"
        /\ attempts # <<>> => report_file = "written" /\ asked = 0 /\ decision[0] = "yes"
        /\ report_file = "none" =>
              /\ pc = "done"
              /\ asked = -1
              /\ attempts = <<>>
              /\ disk = Range(Names(listing))

\* the interactive deletion phase removed a file after the report was written
C16_Witness ==
    /\ entry = "interactive" /\ report_file = "written"
    /\ \E k \in 1..Len(attempts) : attempts[k].outcome = "deleted"

\* C14: a file that vanishes while its directory is scanned never ends the
\* run with an uncaught error: the scan completes, and the fingerprint groups
\* of the files that stayed are still produced.
C14_ScanSurvivesBadFile ==
    /\ pc # "crashed"
    /\ (vanished > 0 /\ Scanned /\ entry = "picker") =>
          LET rest == SelectSeq(listing, LAMBDA f : f.name \in disk)
          IN  /\ \A g \in Range(ImageDuplicateGroups(rest)) :
                    g.keep \in UNION {Range(h.members) : h \in Range(image_duplicate_groups)}
              /\ \A g \in Range(VideoDuplicateGroups(rest)) :
                    g.keep \in UNION {Range(h.members) : h \in Range(video_duplicate_groups)}

\* C15: for every member of a video duplicate group, the has_copy_suffix
\* component of the priority the keep selector computes is set exactly when the
\* detector's rule matches the stem (a parenthesized run of digits ending the
\* stem); 'photo(1)x.mp4' and 'trip(2023)_final.mp4' have it unset.
C15_FlagIsDetectorRule ==
    \A g \in VideoGroups : \A m \in Range(g.members) :
        /\ file_priority(FileOf(listing, m))[1] = BoolInt(CopySuffixed(m))
        /\ m \in {photo_1x_mp4, trip_2023_final_mp4} =>
              file_priority(FileOf(listing, m))[1] = 0

\* the picker run is over and no category prompt was declined
AllConfirmed ==
    /\ entry = "picker" /\ pc = "done"
    /\ \A c \in 1..4 : decision[c] # "no"

\* the files designated keep by the fingerprint groups of the picker
FingerprintKeeps ==
    {g.keep : g \in Range(image_duplicate_groups) \cup Range(video_duplicate_groups)}

\* C17 as claimed: in the picker, after all four passes ran confirmed (and no
\* file was removed from outside), every file designated keep by an image or
\* video fingerprint group is still on the disk.
C17_KeepSurvivesAllPasses ==
    (AllConfirmed /\ vanished = 0) => FingerprintKeeps \subseteq disk

\* C17, amended: in the picker no fingerprint pass (image pass 1, video pass 4)
\* attempts a file that a fingerprint group designated keep; a keep that left
\* the disk was removed by the copy pass (2) or the cross-type pass (3), or
\* from outside.
C17_KeepSurvivesFingerprintPasses ==
    entry = "picker" =>
        /\ \A k \in 1..Len(attempts) :
              attempts[k].cat \in {1, 4} => attempts[k].file \notin FingerprintKeeps
        /\ \A f \in FingerprintKeeps \ disk :
              \/ vanished > 0
              \/ \E k \in 1..Len(attempts) :
                    /\ attempts[k].file = f /\ attempts[k].outcome = "deleted"
                    /\ attempts[k].cat \in {2, 3}

\* all four passes ran confirmed, the image pass removed a duplicate, and the
\* cross-type pass then removed the image that group had kept
C17_Witness ==
    /\ AllConfirmed /\ vanished = 0
    /\ \E k \in 1..Len(attempts) : attempts[k].cat = 1 /\ attempts[k].outcome = "deleted"
    /\ \E g \in Range(image_duplicate_groups) : \E k \in 1..Len(attempts) :
          /\ attempts[k].file = g.keep /\ attempts[k].cat = 3
          /\ attempts[k].outcome = "deleted"
          /\ \A j \in 1..Len(attempts) : attempts[j].file = g.keep => j = k

\* C18 as claimed: no origin of a copy group is in the copies list of any copy
\* group of the directory, its own or another one.
C18_OriginNeverACopy ==
    \A g \in CopyGroups : \A h \in CopyGroups : g.origin \notin Range(h.copies)

====
